---- MODULE Spec2Model ----
(***************************************************************************)
(* A model of the laboratory scripts of ehv-ct/labutils.                   *)
(*                                                                         *)
(* The repository is a collection of independent scripts.  One behaviour   *)
(* of this module is one run of one script; `script' says which:           *)
(*   "sweep"  : the swept-sine generator  (deprecated/sweep (arb).py 1-110)*)
(*   "pulse"  : the pulse generator       (deprecated/sweep (arb).py       *)
(*                                         251-394)                        *)
(*   "poller" : the turbopump poller      (run_leybold_turbolab.py)        *)
(*   "camera" : the dual camera viewer    (run_thorcam.py)                 *)
(* The variables of the scripts that do not run keep their initial value.  *)
(***************************************************************************)
EXTENDS Integers, Sequences, FiniteSets, TLC

VARIABLES
    script,         \* which script this run executes
    pc,             \* position of the script (the next statement to run)
    exit_kind,      \* how the process ended: "none" while it runs
    \* ---- generator scripts (sweep, pulse)
    params,         \* the parameter variables of the script (amp, freq, ...)
    conf_file,      \* the content of conf.yaml / conf_pulse.yaml on disk
    saved_conf,     \* what the script wrote with yaml.dump: <<>> before, <<conf>> after
    connected,      \* the instrument object i exists
    sdk_calls,      \* the calls made on i, in order, each with its outcome
    generated,      \* pulse: the parameters handed to generate_waveform 'Pulse'
    time_elapsed,   \* sweep: time_elapsed
    pulse_index,    \* pulse: pulse_index
    shown,          \* pulse: the parameters in effect at the last prompt
    answer,         \* pulse: the last answer typed at the prompt
    reads,          \* pulse: number of times conf_pulse.yaml was read (capped)
    left_by,        \* how the run block (the try) was left: "none" before
    \* ---- turbopump poller
    simulate,       \* args.simulate
    ioc_proc,       \* what pgrep finds: "running", "absent", or it fails
    constructed,    \* the LeyboldTurbolab object exists
    simulation_mode,\* leybold.simulation_mode
    session,        \* leybold.session is a requests.Session (TRUE) or None
    http_requests,  \* HTTP requests sent to the station host (capped)
    browser_sessions, \* browser sessions opened towards the station (capped)
    exit_status,    \* the status the process exited with, -1 while it runs
    scrape,         \* what scrape_web_data did in this polling cycle
    cycle_log,      \* what main did with the result of this cycle's scrape
    ended_by,       \* what ended the polling loop: "none" while it runs
    pv,             \* the attributes of update_epics_pvs
    pv_puts,        \* PV.put calls made (capped)
    \* ---- camera viewer
    sdk,            \* self.sdk: "none" or "ok"
    init_pending,   \* a QTimer.singleShot for init_sdk / delayed_refresh is due
    selector,       \* the device ids held by the items of camera_selector
    available_camera_count, \* 0 while the attribute is not set
    cam,            \* self.cameras: per slot camera, camera_id, recording, button
    timer_active,   \* self.timer.isActive()
    refreshing_cameras,
    last_callback,  \* the GUI or timer callback that ran last, with its slot
                    \* and the device selected (connect_camera)
    last_calls,     \* the SDK calls the last callback made on slot cameras,
                    \* each with the lock held around it
    last_error      \* the title of the error dialog it showed, "" for none

genVars == <<params, conf_file, saved_conf, connected, sdk_calls, generated,
             time_elapsed, pulse_index, shown, answer, reads, left_by>>

pollVars == <<simulate, ioc_proc, constructed, simulation_mode, session,
              http_requests, browser_sessions, exit_status, scrape,
              cycle_log, ended_by, pv, pv_puts>>

camVars == <<sdk, init_pending, selector, available_camera_count, cam,
             timer_active, refreshing_cameras, last_callback, last_calls,
             last_error>>

\* update_epics_pvs called on its own: what its last call did, and how many
\* calls in a row had data and updated nothing
VARIABLES last_update, failed_calls

epicsVars == <<last_update, failed_calls>>

\* The device-discovery scripts: the number of words `mokucli list' printed,
\* the keys of device_ip_dict, the selection x and the loop flag check
VARIABLES elements, device_ip_dict, x, check

discVars == <<elements, device_ip_dict, x, check>>

vars == <<script, pc, exit_kind, genVars, pollVars, camVars, epicsVars, discVars>>

----------------------------------------------------------------------------
(* Bounds of the model *)

\* largest "program duration" / no_pulses a configuration file holds
MaxConfValue == 3
\* the pulse loop counts pulse_index down without end for a negative
\* no_pulses; the model keeps |pulse_index| exactly up to this value
MaxIndexTracked == 4
\* the file reads of the confirmation loop are counted up to this value
MaxReads == 3
\* requests, browser sessions and puts are counted up to this value
MaxCount == 1
\* most words `mokucli list' prints after its header
MaxDeviceWords == 30
\* longest text typed at the selection prompt
MaxInputLen == 2

----------------------------------------------------------------------------
(* Generator scripts: configuration *)

Min(a, b) == IF a < b THEN a ELSE b
Max(a, b) == IF a < b THEN b ELSE a
Abs(n) == IF n < 0 THEN -n ELSE n
\* np.sign
Sign(n) == IF n < 0 THEN -1 ELSE IF n = 0 THEN 0 ELSE 1

\* yaml's .inf, a legal value of 'program duration'
Infinity == 1000000

\* sweep (arb).py 11-16
DefaultAmp == 1
DefaultBaseFreq == 1
DefaultT == 5
DefaultNoPoints == 1000
DefaultNoDeadCycles == 2
DefaultMaxTime == 5

SweepKeys == <<"amp", "base frequency", "sweep duration", "number of points",
               "number of dead cycles between pulses", "program duration">>

SweepDefaults ==
    [k \in {SweepKeys[i] : i \in 1..Len(SweepKeys)} |->
        CASE k = "amp" -> DefaultAmp
          [] k = "base frequency" -> DefaultBaseFreq
          [] k = "sweep duration" -> DefaultT
          [] k = "number of points" -> DefaultNoPoints
          [] k = "number of dead cycles between pulses" -> DefaultNoDeadCycles
          [] OTHER -> DefaultMaxTime]

\* pulse script 278-282.  Widths are in units of 10 ns: 0.1 s and 1e-8 s.
DefaultPulseAmp == 1
DefaultFreq == 1
DefaultPulseWidth == 10000000
DefaultEdgeWidth == 1
DefaultNoPulses == 10

PulseKeys == <<"amplitude", "repetition rate", "pulse width", "edge width",
               "no_pulses">>

PulseDefaults ==
    [k \in {PulseKeys[i] : i \in 1..Len(PulseKeys)} |->
        CASE k = "amplitude" -> DefaultPulseAmp
          [] k = "repetition rate" -> DefaultFreq
          [] k = "pulse width" -> DefaultPulseWidth
          [] k = "edge width" -> DefaultEdgeWidth
          [] OTHER -> DefaultNoPulses]

KeySet(order) == {order[i] : i \in 1..Len(order)}

\* A configuration file: absent/unparsable (exists = FALSE), or a mapping
\* holding the keys of `present' with the values of `val'.
NoFile(order) ==
    [exists |-> FALSE, present |-> {}, val |-> [k \in KeySet(order) |-> 0]]

\* The assignments `x = loaded_conf[key]' run in the order of the source and
\* stop at the first key the file lacks (KeyError): the variables assigned
\* before keep the file's value, the others keep the value they had.
RECURSIVE LoadFrom(_, _, _, _)
LoadFrom(p, f, order, i) ==
    IF i > Len(order) \/ order[i] \notin f.present
        THEN p
        ELSE LoadFrom([p EXCEPT ![order[i]] = f.val[order[i]]], f, order, i + 1)

LoadConf(p, f, order) == IF f.exists THEN LoadFrom(p, f, order, 1) ELSE p

\* the except branch ('Using default parameters.') is taken
LoadFailed(f, order) == ~f.exists \/ KeySet(order) \ f.present # {}

\* The files a run may find on disk.
SweepFile(present, mt) ==
    [exists |-> TRUE, present |-> present,
     val |-> [k \in KeySet(SweepKeys) |->
                 IF k = "program duration" THEN mt ELSE 2]]

SweepFiles ==
    {NoFile(SweepKeys)}
    \cup {SweepFile(KeySet(SweepKeys), mt) : mt \in (-1..MaxConfValue) \cup {Infinity}}
    \cup {SweepFile(KeySet(SweepKeys) \ {"sweep duration"}, mt) : mt \in {2}}

PulseFile(present, np, fq) ==
    [exists |-> TRUE, present |-> present,
     val |-> [k \in KeySet(PulseKeys) |->
                 CASE k = "no_pulses" -> np
                   [] k = "repetition rate" -> fq
                   [] k = "amplitude" -> 2
                   [] k = "pulse width" -> 5
                   [] OTHER -> 3]]

PulseFiles ==
    {NoFile(PulseKeys)}
    \cup {PulseFile(KeySet(PulseKeys), np, fq) :
            np \in (-2..MaxConfValue), fq \in 0..2}
    \cup {PulseFile(KeySet(PulseKeys) \ {"edge width"}, 2, 2)}

----------------------------------------------------------------------------
(* Generator scripts: the instrument *)

\* One call on the instrument object i and whether it returned (ok) or
\* raised an SDK error.
Call(name, ok) == [call |-> name, ok |-> ok]

\* how a script leaves a statement that raised KeyboardInterrupt or an SDK
\* error outside every try: the interpreter prints a traceback and exits
Die(kind) ==
    /\ pc' = "exited"
    /\ exit_kind' = kind

GenInit ==
    /\ params = IF script = "pulse" THEN PulseDefaults ELSE SweepDefaults
    /\ conf_file = IF script = "pulse" THEN NoFile(PulseKeys) ELSE NoFile(SweepKeys)
    /\ saved_conf = <<>>
    /\ connected = FALSE
    /\ sdk_calls = <<>>
    /\ generated = <<>>
    /\ time_elapsed = 0
    /\ pulse_index = 0
    /\ shown = PulseDefaults
    /\ answer = "none"
    /\ reads = 0
    /\ left_by = "none"

----------------------------------------------------------------------------
(* The sweep script, sweep (arb).py 1-110 *)

\* the model tracks time_elapsed exactly up to a value no finite
\* configuration reaches
ElapsedCap == Max(MaxConfValue, DefaultMaxTime) + 2

\* line 95: time_elapsed += 2
SweepAdvance(t) == Min(t + 2, ElapsedCap)

\* lines 19-35: read conf.yaml
SweepLoad ==
    /\ script = "sweep" /\ pc = "s_load"
    /\ \E f \in SweepFiles :
        /\ conf_file' = f
        /\ params' = LoadConf(SweepDefaults, f, SweepKeys)
    /\ pc' = "s_save"
    /\ UNCHANGED <<pollVars, camVars, epicsVars, discVars, script, exit_kind, saved_conf, connected, sdk_calls,
                   generated, time_elapsed, pulse_index, shown, answer, reads, left_by>>

\* lines 38-50: write the parameters in use back to conf.yaml
SweepSave ==
    /\ script = "sweep" /\ pc = "s_save"
    /\ saved_conf' = <<params>>
    /\ conf_file' = [exists |-> TRUE, present |-> KeySet(SweepKeys), val |-> params]
    /\ pc' = "s_connect"
    /\ UNCHANGED <<pollVars, camVars, epicsVars, discVars, script, exit_kind, params, connected, sdk_calls,
                   generated, time_elapsed, pulse_index, shown, answer, reads, left_by>>

\* line 75: i = ArbitraryWaveformGenerator(ip, force_connect=True), outside
\* the try: a failure ends the process with no instrument object
SweepConnect ==
    /\ script = "sweep" /\ pc = "s_connect"
    /\ \E ok \in BOOLEAN :
        IF ok THEN /\ connected' = TRUE
                   /\ pc' = "s_generate"
                   /\ UNCHANGED exit_kind
              ELSE /\ Die("traceback")
                   /\ UNCHANGED connected
    /\ UNCHANGED <<pollVars, camVars, epicsVars, discVars, script, params, conf_file, saved_conf, sdk_calls,
                   generated, time_elapsed, pulse_index, shown, answer, reads, left_by>>

\* The SDK calls of the try block before the loop, lines 79-89: each
\* returns, or raises an error no except clause catches, which runs the
\* finally block.
SweepTryCallName ==
    [s_generate |-> "generate_waveform(1)", s_modulate |-> "pulse_modulate(1)",
     s_summary |-> "summary"]
SweepTryNext ==
    [s_generate |-> "s_modulate", s_modulate |-> "s_summary", s_summary |-> "s_while"]

SweepTryCall ==
    /\ script = "sweep" /\ pc \in DOMAIN SweepTryCallName
    /\ \E ok \in BOOLEAN :
        /\ sdk_calls' = Append(sdk_calls, Call(SweepTryCallName[pc], ok))
        /\ IF ok THEN /\ pc' = SweepTryNext[pc]
                      /\ time_elapsed' = 0
                      /\ UNCHANGED left_by
                 ELSE /\ pc' = "s_fin_off"
                      /\ left_by' = "error"
                      /\ UNCHANGED time_elapsed
    /\ UNCHANGED <<pollVars, camVars, epicsVars, discVars, script, exit_kind, params, conf_file, saved_conf, connected,
                   generated, pulse_index, shown, answer, reads>>

\* lines 92-94: the loop test, the print and the sleep
SweepWhile ==
    /\ script = "sweep" /\ pc = "s_while"
    /\ IF time_elapsed < params["program duration"]
          THEN /\ pc' = "s_advance"
               /\ UNCHANGED left_by
          ELSE /\ pc' = "s_fin_off"      \* line 97, then the finally block
               /\ left_by' = "normal"
    /\ UNCHANGED <<pollVars, camVars, epicsVars, discVars, script, exit_kind, params, conf_file, saved_conf, connected,
                   sdk_calls, generated, time_elapsed, pulse_index, shown, answer, reads>>

\* line 95
SweepStep ==
    /\ script = "sweep" /\ pc = "s_advance"
    /\ time_elapsed' = SweepAdvance(time_elapsed)
    /\ pc' = "s_while"
    /\ UNCHANGED <<pollVars, camVars, epicsVars, discVars, script, exit_kind, params, conf_file, saved_conf, connected,
                   sdk_calls, generated, pulse_index, shown, answer, reads, left_by>>

\* lines 103-110: the finally block.  A call that raises ends the block
\* there: the statements after it do not run and the process exits with the
\* traceback.
SweepFinCallName ==
    [s_fin_off |-> "enable_output(1,False)", s_fin_summary |-> "summary",
     s_fin_relinquish |-> "relinquish_ownership"]
SweepFinNext ==
    [s_fin_off |-> "s_fin_summary", s_fin_summary |-> "s_fin_relinquish",
     s_fin_relinquish |-> "s_fin_exit"]

SweepFinallyCall ==
    /\ script = "sweep" /\ pc \in DOMAIN SweepFinCallName
    /\ \E ok \in BOOLEAN :
        /\ sdk_calls' = Append(sdk_calls, Call(SweepFinCallName[pc], ok))
        /\ IF ok THEN /\ pc' = SweepFinNext[pc]
                      /\ UNCHANGED exit_kind
                 ELSE Die("traceback")
    /\ UNCHANGED <<pollVars, camVars, epicsVars, discVars, script, params, conf_file, saved_conf, connected,
                   generated, time_elapsed, pulse_index, shown, answer, reads, left_by>>

\* line 110: sys.exit("Program terminated.")
SweepExit ==
    /\ script = "sweep" /\ pc = "s_fin_exit"
    /\ Die("sys.exit")
    /\ UNCHANGED <<pollVars, camVars, epicsVars, discVars, script, genVars>>

\* Ctrl+C.  Inside the try (lines 77-97) the except clause of line 100
\* catches it and the finally block runs; anywhere else nothing catches it.
SweepTryPcs == {"s_generate", "s_modulate", "s_summary", "s_while", "s_advance"}
SweepFinallyPcs == {"s_fin_off", "s_fin_summary", "s_fin_relinquish", "s_fin_exit"}

SweepInterrupt ==
    /\ script = "sweep" /\ pc # "exited"
    /\ IF pc \in SweepTryPcs
          THEN /\ pc' = "s_fin_off"
               /\ left_by' = "interrupt"
               /\ UNCHANGED exit_kind
          ELSE /\ Die("interrupt")
               /\ UNCHANGED left_by
    /\ UNCHANGED <<pollVars, camVars, epicsVars, discVars, script, params, conf_file, saved_conf, connected, sdk_calls,
                   generated, time_elapsed, pulse_index, shown, answer, reads>>

SweepProgram ==
    \/ SweepLoad \/ SweepSave \/ SweepConnect \/ SweepTryCall
    \/ SweepWhile \/ SweepStep \/ SweepFinallyCall \/ SweepExit

----------------------------------------------------------------------------
(* The pulse script, sweep (arb).py 251-394 *)

\* line 378: pulse_index += np.sign(no_pulses).  Below -MaxIndexTracked the
\* model keeps one value: the tests of lines 361 and 371 read the same for
\* every negative index.
PulseAdvance(idx, np) == Max(idx + Sign(np), 0 - MaxIndexTracked)

\* lines 263-273: ask for the address and connect, until a connection works
PulseConnect ==
    /\ script = "pulse" /\ pc = "p_ip"
    /\ \E ok \in BOOLEAN :
        IF ok THEN /\ connected' = TRUE
                   /\ pc' = "p_read"
              ELSE /\ UNCHANGED <<connected, pc>>   \* line 273, ask again
    /\ UNCHANGED <<pollVars, camVars, epicsVars, discVars, script, exit_kind, params, conf_file, saved_conf, sdk_calls,
                   generated, time_elapsed, pulse_index, shown, answer, reads,
                   left_by>>

\* lines 292-306: read conf_pulse.yaml into the parameter variables.  The
\* user may have replaced the file since the last read.
PulseRead ==
    /\ script = "pulse" /\ pc = "p_read"
    /\ \E f \in PulseFiles :
        /\ conf_file' = f
        /\ params' = LoadConf(params, f, PulseKeys)
    /\ reads' = Min(reads + 1, MaxReads)
    /\ pc' = "p_prompt"
    /\ UNCHANGED <<pollVars, camVars, epicsVars, discVars, script, exit_kind, saved_conf, connected, sdk_calls,
                   generated, time_elapsed, pulse_index, shown, answer, left_by>>

\* a prompt that takes any answer for a go-ahead
PulsePromptAnyAnswer ==
    /\ script = "pulse" /\ pc = "p_prompt"
    /\ IF params["repetition rate"] = 0
          THEN /\ pc' = "p_read"
               /\ UNCHANGED <<shown, answer>>
          ELSE /\ shown' = params
               /\ \E a \in {"y", "n"} :
                    /\ answer' = a
                    /\ pc' = "p_save"
    /\ UNCHANGED <<pollVars, camVars, epicsVars, discVars, script, exit_kind, params, conf_file, saved_conf, connected,
                   sdk_calls, generated, time_elapsed, pulse_index, reads,
                   left_by>>

\* lines 308-323: max_time = no_pulses*(1/freq) (ZeroDivisionError is
\* caught at line 322 and the loop starts over), the prompt, computed from
\* the parameter variables as they are then (shown), and the answer.
PulsePrompt ==
    /\ script = "pulse" /\ pc = "p_prompt"
    /\ IF params["repetition rate"] = 0
          THEN /\ pc' = "p_read"
               /\ UNCHANGED <<shown, answer>>
          ELSE /\ shown' = params
               /\ \E a \in {"y", "n"} :
                    /\ answer' = a
                    /\ pc' = IF a = "y" THEN "p_save" ELSE "p_read"
    /\ UNCHANGED <<pollVars, camVars, epicsVars, discVars, script, exit_kind, params, conf_file, saved_conf, connected,
                   sdk_calls, generated, time_elapsed, pulse_index, reads,
                   left_by>>

\* lines 327-343: write the parameters to the timestamped file
PulseSave ==
    /\ script = "pulse" /\ pc = "p_save"
    /\ saved_conf' = <<params>>
    /\ pc' = "p_try"
    /\ UNCHANGED <<pollVars, camVars, epicsVars, discVars, script, exit_kind, params, conf_file, connected, sdk_calls,
                   generated, time_elapsed, pulse_index, shown, answer, reads,
                   left_by>>

\* lines 349-355: nothing for no_pulses = 0, else start the pulse
PulseGenerate ==
    /\ script = "pulse" /\ pc = "p_try"
    /\ IF params["no_pulses"] = 0
          THEN /\ pc' = "p_fin_off2"
               /\ left_by' = "normal"
               /\ UNCHANGED <<sdk_calls, generated>>
          ELSE \E ok \in BOOLEAN :
                /\ sdk_calls' = Append(sdk_calls, Call("generate_waveform(4,Pulse)", ok))
                /\ generated' = Append(generated, params)
                /\ IF ok THEN /\ pc' = "p_summary"
                              /\ UNCHANGED left_by
                         ELSE /\ pc' = "p_fin_off2"
                              /\ left_by' = "error"
    /\ UNCHANGED <<pollVars, camVars, epicsVars, discVars, script, exit_kind, params, conf_file, saved_conf, connected,
                   time_elapsed, pulse_index, shown, answer, reads>>

\* lines 357-360: print(i.summary()); pulse_index = np.sign(no_pulses)
PulseSummary ==
    /\ script = "pulse" /\ pc = "p_summary"
    /\ \E ok \in BOOLEAN :
        /\ sdk_calls' = Append(sdk_calls, Call("summary", ok))
        /\ IF ok THEN /\ pc' = "p_while"
                      /\ pulse_index' = Sign(params["no_pulses"])
                      /\ UNCHANGED left_by
                 ELSE /\ pc' = "p_fin_off2"
                      /\ left_by' = "error"
                      /\ UNCHANGED pulse_index
    /\ UNCHANGED <<pollVars, camVars, epicsVars, discVars, script, exit_kind, params, conf_file, saved_conf, connected,
                   generated, time_elapsed, shown, answer, reads>>

\* lines 361-373: the loop test, the first half period, and the 'Off' call
\* of the last pulse
PulseWhile ==
    /\ script = "pulse" /\ pc = "p_while"
    /\ IF pulse_index <= Abs(params["no_pulses"])
          THEN IF pulse_index = Abs(params["no_pulses"])
                  THEN \E ok \in BOOLEAN :
                        /\ sdk_calls' = Append(sdk_calls, Call("generate_waveform(4,Off)", ok))
                        /\ IF ok THEN /\ pc' = "p_advance"
                                      /\ UNCHANGED left_by
                                 ELSE /\ pc' = "p_fin_off2"
                                      /\ left_by' = "error"
                  ELSE /\ pc' = "p_advance"
                       /\ UNCHANGED <<sdk_calls, left_by>>
          ELSE /\ pc' = "p_fin_off2"         \* line 380, then the finally block
               /\ left_by' = "normal"
               /\ UNCHANGED sdk_calls
    /\ UNCHANGED <<pollVars, camVars, epicsVars, discVars, script, exit_kind, params, conf_file, saved_conf, connected,
                   generated, time_elapsed, pulse_index, shown, answer, reads>>

\* lines 375-378: the second half period and the increment
PulseStep ==
    /\ script = "pulse" /\ pc = "p_advance"
    /\ pulse_index' = PulseAdvance(pulse_index, params["no_pulses"])
    /\ pc' = "p_while"
    /\ UNCHANGED <<pollVars, camVars, epicsVars, discVars, script, exit_kind, params, conf_file, saved_conf, connected,
                   sdk_calls, generated, time_elapsed, shown, answer, reads,
                   left_by>>

\* lines 385-394: the finally block
PulseFinCallName ==
    [p_fin_off2 |-> "generate_waveform(2,Off)", p_fin_off4 |-> "generate_waveform(4,Off)",
     p_fin_summary |-> "summary", p_fin_relinquish |-> "relinquish_ownership"]
PulseFinNext ==
    [p_fin_off2 |-> "p_fin_off4", p_fin_off4 |-> "p_fin_summary",
     p_fin_summary |-> "p_fin_relinquish", p_fin_relinquish |-> "p_fin_exit"]

PulseFinallyCall ==
    /\ script = "pulse" /\ pc \in DOMAIN PulseFinCallName
    /\ \E ok \in BOOLEAN :
        /\ sdk_calls' = Append(sdk_calls, Call(PulseFinCallName[pc], ok))
        /\ IF ok THEN /\ pc' = PulseFinNext[pc]
                      /\ UNCHANGED exit_kind
                 ELSE Die("traceback")
    /\ UNCHANGED <<pollVars, camVars, epicsVars, discVars, script, params, conf_file, saved_conf, connected,
                   generated, time_elapsed, pulse_index, shown, answer, reads,
                   left_by>>

\* line 394
PulseExit ==
    /\ script = "pulse" /\ pc = "p_fin_exit"
    /\ Die("sys.exit")
    /\ UNCHANGED <<pollVars, camVars, epicsVars, discVars, script, genVars>>

\* Ctrl+C.  The except clause of line 382 catches it inside the try of
\* lines 347-380 only; `except Exception' (lines 272, 322) does not catch
\* KeyboardInterrupt.
PulseTryPcs == {"p_try", "p_summary", "p_while", "p_advance"}
PulseFinallyPcs == {"p_fin_off2", "p_fin_off4", "p_fin_summary",
                    "p_fin_relinquish", "p_fin_exit"}

PulseInterrupt ==
    /\ script = "pulse" /\ pc # "exited"
    /\ IF pc \in PulseTryPcs
          THEN /\ pc' = "p_fin_off2"
               /\ left_by' = "interrupt"
               /\ UNCHANGED exit_kind
          ELSE /\ Die("interrupt")
               /\ UNCHANGED left_by
    /\ UNCHANGED <<pollVars, camVars, epicsVars, discVars, script, params, conf_file, saved_conf, connected, sdk_calls,
                   generated, time_elapsed, pulse_index, shown, answer, reads>>

PulseProgram ==
    \/ PulseConnect \/ PulseRead \/ PulsePrompt \/ PulseSave \/ PulseGenerate
    \/ PulseSummary \/ PulseWhile \/ PulseStep \/ PulseFinallyCall \/ PulseExit

----------------------------------------------------------------------------
(* The turbopump poller, run_leybold_turbolab.py *)

Cap(n) == Min(n + 1, MaxCount)

\* The process variables of the model, in the order of data.items(): the two
\* main reports on (lines 953-956), named as lines 930-932 name them with
\* the default prefix.
PvOrder == <<"AUX:TURBO_PUMP_SPEED", "AUX:CHAMBER_PRESSURE">>
PVs == {PvOrder[i] : i \in 1..Len(PvOrder)}

\* the three values _try_selenium_scrape can put into data (lines 474, 560,
\* 563 and their repetitions)
SeleniumKeys == {"turbo_pump_bearing_temp", "chamber_pressure", "foreline_pressure"}

\* line 200: len(data) >= 3
EnoughValues == 3
\* line 993: connection_retry_limit
ConnectionRetryLimit == 5
\* line 998: consecutive_failures > 10
MaxConsecutiveFailures == 10

\* a check that lets every start through
CheckIocSkipped(p) == TRUE

\* check_ioc_running, lines 858-868: pgrep's output is non-empty, or the
\* check raised and the IOC is assumed to run
CheckIocRunning(p) ==
    CASE p = "running" -> TRUE
      [] p = "absent" -> FALSE
      [] OTHER -> TRUE

\* What one call of _try_selenium_scrape (lines 335-774) can do: the import
\* fails; the browser does not start; or the browser runs, `keys' are put
\* into data and the method returns `ret'.  success is set only together
\* with a value (so ret => keys # {}); an exception after some values were
\* stored returns False with those values left in data.
SeleniumOutcomes ==
    {[imported |-> FALSE, browser |-> FALSE, ret |-> FALSE, keys |-> {}],
     [imported |-> TRUE, browser |-> FALSE, ret |-> FALSE, keys |-> {}]}
    \cup {o \in [imported : {TRUE}, browser : {TRUE}, ret : BOOLEAN,
                  keys : SUBSET SeleniumKeys] : o.ret => o.keys # {}}

\* The class defines none of _generate_simulated_values, _scrape_page,
\* _scrape_ajax, _extract_all_numeric_data, _alternative_scrape and
\* _scrape_additional_endpoints (it defines __init__, connect, disconnect,
\* _login, scrape_web_data, _try_selenium_scrape,
\* _convert_superscript_to_int and _fill_missing_values, and has no base
\* class): a call of one of them raises AttributeError.
DefinedMethods ==
    {"__init__", "connect", "disconnect", "_login", "scrape_web_data",
     "_try_selenium_scrape", "_convert_superscript_to_int", "_fill_missing_values"}

\* scrape_web_data, lines 175-333, after the connection test of lines
\* 185-188, given what Selenium did.  The result is
\*   kind: "data" (a processed, filled dictionary is returned) or "raised",
\*   keys: the values extracted, tried: the strategies called, in order.
ScrapeAfterConnect(sel) ==
    IF sel.ret /\ Cardinality(sel.keys) >= EnoughValues
        THEN [kind |-> "data", keys |-> sel.keys, tried |-> <<"selenium">>]
    ELSE IF sel.keys # {}
        \* lines 261-267: success = len(data) > 0 skips every fallback
        THEN [kind |-> "data", keys |-> sel.keys, tried |-> <<"selenium">>]
    \* lines 276-281: '/' is skipped (not success), then
    \* self._scrape_page('/status', data)
    ELSE IF "_scrape_page" \in DefinedMethods
        THEN [kind |-> "data", keys |-> {}, tried |-> <<"selenium", "_scrape_page">>]
        ELSE [kind |-> "raised", keys |-> {}, tried |-> <<"selenium", "_scrape_page">>]

\* lines 182-183: if self.simulation_mode: return self._generate_simulated_values()
ScrapeSimulated ==
    IF "_generate_simulated_values" \in DefinedMethods
        THEN [kind |-> "simulated", keys |-> {}, tried |-> <<"_generate_simulated_values">>]
        ELSE [kind |-> "raised", keys |-> {}, tried |-> <<"_generate_simulated_values">>]

NoScrape == [kind |-> "none", keys |-> {}, tried |-> <<>>]

(* update_epics_pvs, lines 979-1053 *)

\* the function attributes before the first call (hasattr is False)
PvInit ==
    [has_objects |-> FALSE, objects |-> {},
     attempts |-> [q \in PVs |-> -1],         \* -1: no entry for the PV
     has_failures |-> FALSE, failures |-> 0]

\* What the EPICS calls for one PV can do in one call of update_epics_pvs.
PvOutcomes ==
    {"ctor_raises", "connected_put_ok", "connected_put_raises",
     "connect_ok_put_ok", "connect_ok_put_raises", "connect_fails",
     "connect_raises"}

\* a limit that is never reached
RetryLimitIgnored(a) == FALSE

\* lines 1015-1017: connection_attempts[pv_name] >= connection_retry_limit
RetryLimitReached(a) == a >= ConnectionRetryLimit

\* lines 1007-1045 for one PV; st.updated and st.puts count within the call,
\* st.calls[q] holds the EPICS calls made for q ("PV" the constructor,
\* "connect", "put") and st.put_ok the PVs whose put returned
UpdateOnePv(st, q, out) ==
    LET a0 == IF st.attempts[q] = -1 THEN 0 ELSE st.attempts[q]
        st0 == [st EXCEPT !.attempts[q] = a0]
        ctor == IF q \in st.objects THEN {} ELSE {"PV"}
    IN  IF RetryLimitReached(a0) THEN st0
        ELSE IF q \notin st.objects /\ out = "ctor_raises"
            THEN [st0 EXCEPT !.attempts[q] = a0 + 1, !.calls[q] = {"PV"}]
        ELSE
        LET st1 == [st0 EXCEPT !.objects = @ \cup {q}]
        IN  CASE out = "connected_put_ok" ->
                    [st1 EXCEPT !.attempts[q] = 0, !.updated = @ + 1, !.puts = @ + 1,
                                !.calls[q] = ctor \cup {"put"},
                                !.put_ok = @ \cup {q}]
              [] out = "connected_put_raises" ->
                    [st1 EXCEPT !.attempts[q] = a0 + 1, !.puts = @ + 1,
                                !.calls[q] = ctor \cup {"put"}]
              [] out = "connect_ok_put_ok" ->
                    [st1 EXCEPT !.attempts[q] = 0, !.updated = @ + 1, !.puts = @ + 1,
                                !.connects = @ + 1,
                                !.calls[q] = ctor \cup {"connect", "put"},
                                !.put_ok = @ \cup {q}]
              [] out = "connect_ok_put_raises" ->
                    [st1 EXCEPT !.attempts[q] = a0 + 2, !.puts = @ + 1,
                                !.connects = @ + 1,
                                !.calls[q] = ctor \cup {"connect", "put"}]
              [] out = "connect_fails" ->
                    [st1 EXCEPT !.attempts[q] = a0 + 1, !.connects = @ + 1,
                                !.calls[q] = ctor \cup {"connect"}]
              [] OTHER ->   \* connect_raises: only line 1045 counts
                    [st1 EXCEPT !.attempts[q] = a0 + 1, !.connects = @ + 1,
                                !.calls[q] = ctor \cup {"connect"}]

\* the PV constructor runs (and can raise) only for a PV with no cached object
OutcomesApply(p, outs) ==
    LET reset == p.has_failures /\ p.failures > MaxConsecutiveFailures
    IN  \A q \in PVs :
            outs[q] = "ctor_raises" => (reset \/ ~p.has_objects \/ q \notin p.objects)

RECURSIVE UpdateFrom(_, _, _, _)
UpdateFrom(st, data, outs, i) ==
    IF i > Len(PvOrder) THEN st
    ELSE UpdateFrom(IF PvOrder[i] \in data
                       THEN UpdateOnePv(st, PvOrder[i], outs[PvOrder[i]])
                       ELSE st,
                    data, outs, i + 1)

\* a count that an empty dictionary raises as well
FailuresCountEmpty(f0, updated, data) ==
    IF updated = 0 THEN f0 + 1 ELSE 0

\* lines 1049-1053: updated_count == 0 and len(data) > 0
FailuresAfter(f0, updated, data) ==
    IF updated = 0 /\ data # {} THEN f0 + 1 ELSE 0

\* the whole call: data is the set of PVs the dictionary has values for
UpdateEpicsPvs(p, data, outs) ==
    LET reset == p.has_failures /\ p.failures > MaxConsecutiveFailures
        st == [objects |-> IF reset \/ ~p.has_objects THEN {} ELSE p.objects,
               attempts |-> IF reset \/ ~p.has_objects
                               THEN [q \in PVs |-> -1] ELSE p.attempts,
               updated |-> 0, puts |-> 0, connects |-> 0,
               calls |-> [q \in PVs |-> {}], put_ok |-> {}]
        f0 == IF reset \/ ~p.has_failures THEN 0 ELSE p.failures
        end == UpdateFrom(st, data, outs, 1)
    IN  [has_objects |-> TRUE, objects |-> end.objects, attempts |-> end.attempts,
         has_failures |-> TRUE,
         failures |-> FailuresAfter(f0, end.updated, data),
         updated |-> end.updated, puts |-> end.puts, connects |-> end.connects,
         reset |-> reset, calls |-> end.calls, put_ok |-> end.put_ok]

PvState(r) ==
    [has_objects |-> r.has_objects, objects |-> r.objects, attempts |-> r.attempts,
     has_failures |-> r.has_failures, failures |-> r.failures]

\* no call of update_epics_pvs yet
NoUpdate ==
    [data |-> {}, calls |-> [q \in PVs |-> {}], put_ok |-> {}, updated |-> 0,
     reset |-> FALSE]

EpicsInit ==
    /\ last_update = NoUpdate
    /\ failed_calls = 0

\* One call update_epics_pvs(data, pv_map), lines 979-1053, with any
\* dictionary over the mapped parameters (main passes only non-empty ones,
\* line 948) and any behaviour of the EPICS calls.
CallUpdateEpicsPvs ==
    /\ script = "update_epics_pvs"
    /\ \E data \in SUBSET PVs, outs \in [PVs -> PvOutcomes] :
        /\ OutcomesApply(pv, outs)
        \* the outcome of calls that are not made does not matter
        /\ \A q \in PVs \ data : outs[q] = "connect_fails"
        /\ \A q \in data :
              (RetryLimitReached(pv.attempts[q])
                    /\ ~(pv.has_failures /\ pv.failures > MaxConsecutiveFailures))
                => outs[q] = "connect_fails"
        /\ LET r == UpdateEpicsPvs(pv, data, outs)
           IN  /\ pv' = PvState(r)
               /\ last_update' = [data |-> data, calls |-> r.calls,
                                  put_ok |-> r.put_ok, updated |-> r.updated,
                                  reset |-> r.reset]
               /\ failed_calls' = IF data # {} /\ r.updated = 0
                                     THEN (IF r.reset THEN 0 ELSE failed_calls) + 1
                                     ELSE 0
    /\ UNCHANGED <<genVars, camVars, discVars, script, pc, exit_kind, simulate, ioc_proc,
                   constructed, simulation_mode, session, http_requests,
                   browser_sessions, exit_status, scrape, cycle_log, ended_by,
                   pv_puts>>

PollInit ==
    /\ simulate \in (IF script = "poller" THEN BOOLEAN ELSE {FALSE})
    /\ ioc_proc \in (IF script = "poller"
                        THEN {"running", "absent", "pgrep_fails"}
                        ELSE {"running"})
    /\ constructed = FALSE
    /\ simulation_mode = FALSE
    /\ session = FALSE
    /\ http_requests = 0
    /\ browser_sessions = 0
    /\ exit_status = -1
    /\ scrape = NoScrape
    /\ cycle_log = <<>>
    /\ ended_by = "none"
    /\ pv = PvInit
    /\ pv_puts = 0

\* connect, lines 103-135: a GET of the root URL; the session is kept when
\* it succeeds and dropped (None) when it fails
Connect(ok) ==
    /\ http_requests' = Cap(http_requests)
    /\ session' = ok

\* lines 915-919
MainCheckIoc ==
    /\ script = "poller" /\ pc = "m_check"
    /\ IF CheckIocRunning(ioc_proc)
          THEN /\ pc' = "m_construct"
               /\ UNCHANGED <<exit_kind, exit_status>>
          ELSE /\ Die("sys.exit")
               /\ exit_status' = 1
    /\ UNCHANGED <<genVars, camVars, epicsVars, discVars, script, simulate, ioc_proc, constructed,
                   simulation_mode, session, http_requests, browser_sessions,
                   scrape, cycle_log, ended_by, pv, pv_puts>>

\* line 922: LeyboldTurbolab.__init__, lines 89-101
MainConstruct ==
    /\ script = "poller" /\ pc = "m_construct"
    /\ \E ok \in BOOLEAN :
        /\ Connect(ok)
        /\ simulation_mode' = ~ok
    /\ constructed' = TRUE
    /\ pc' = "m_set_sim"
    /\ UNCHANGED <<genVars, camVars, epicsVars, discVars, script, exit_kind, simulate, ioc_proc,
                   browser_sessions, exit_status, scrape, cycle_log, ended_by, pv, pv_puts>>

\* line 923: leybold.simulation_mode = args.simulate
MainSetSimulation ==
    /\ script = "poller" /\ pc = "m_set_sim"
    /\ simulation_mode' = simulate
    /\ pc' = "m_scrape"
    /\ UNCHANGED <<genVars, camVars, epicsVars, discVars, script, exit_kind, simulate, ioc_proc, constructed,
                   session, http_requests, browser_sessions, exit_status,
                   scrape, cycle_log, ended_by, pv, pv_puts>>

\* lines 945-946: data = leybold.scrape_web_data(), lines 175-333.  An
\* exception leaves the loop for the handler of line 970.
MainScrape ==
    /\ script = "poller" /\ pc = "m_scrape"
    /\ cycle_log' = <<>>
    /\ IF simulation_mode
          THEN /\ scrape' = ScrapeSimulated
               /\ UNCHANGED <<session, http_requests, browser_sessions>>
          ELSE \E ok \in BOOLEAN, sel \in SeleniumOutcomes :
                /\ IF session THEN ok /\ UNCHANGED <<session, http_requests>>
                              ELSE Connect(ok)              \* lines 185-186
                /\ IF ok
                      THEN /\ scrape' = ScrapeAfterConnect(sel)
                           /\ browser_sessions' =
                                IF sel.browser THEN Cap(browser_sessions)
                                               ELSE browser_sessions
                      ELSE /\ scrape' = [kind |-> "empty", keys |-> {},
                                         tried |-> <<>>]    \* line 188
                           /\ sel = CHOOSE o \in SeleniumOutcomes : TRUE
                           /\ UNCHANGED browser_sessions
    /\ IF scrape'.kind = "raised"
          THEN /\ pc' = "m_except"
               /\ ended_by' = "error"
          ELSE /\ pc' = "m_handle"
               /\ UNCHANGED ended_by
    /\ UNCHANGED <<genVars, camVars, epicsVars, discVars, script, exit_kind, simulate, ioc_proc, constructed,
                   simulation_mode, exit_status, pv, pv_puts>>

\* lines 948-961: a non-empty dictionary goes to update_epics_pvs (lines
\* 979-1053); an empty one is logged and the connection is reopened
MainHandle ==
    /\ script = "poller" /\ pc = "m_handle"
    /\ IF scrape.kind \in {"data", "simulated"}
          THEN /\ \E outs \in [PVs -> PvOutcomes] :
                    /\ OutcomesApply(pv, outs)
                    /\ LET r == UpdateEpicsPvs(pv, PVs, outs)
                       IN  /\ pv' = PvState(r)
                           /\ pv_puts' = Min(pv_puts + r.puts, MaxCount)
               /\ cycle_log' = <<"update_epics_pvs">>
               /\ UNCHANGED <<session, http_requests>>
          ELSE /\ cycle_log' = <<"warning", "disconnect", "connect">>
               /\ \E ok \in BOOLEAN : Connect(ok)
               /\ UNCHANGED <<pv, pv_puts>>
    /\ pc' = "m_sleep"
    /\ UNCHANGED <<genVars, camVars, epicsVars, discVars, script, exit_kind, simulate, ioc_proc, constructed,
                   simulation_mode, browser_sessions, exit_status, scrape,
                   ended_by>>

\* a loop that polls once: after the sleep it goes on to the finally block
MainSleepThenBreak ==
    /\ script = "poller" /\ pc = "m_sleep"
    /\ cycle_log' = Append(cycle_log, "sleep")
    /\ pc' = "m_finally"
    /\ UNCHANGED <<genVars, camVars, epicsVars, discVars, script, exit_kind, simulate, ioc_proc, constructed,
                   simulation_mode, session, http_requests, browser_sessions,
                   exit_status, scrape, ended_by, pv, pv_puts>>

\* lines 964-966, and back to the head of `while True'
MainSleep ==
    /\ script = "poller" /\ pc = "m_sleep"
    /\ cycle_log' = Append(cycle_log, "sleep")
    /\ pc' = "m_scrape"
    /\ UNCHANGED <<genVars, camVars, epicsVars, discVars, script, exit_kind, simulate, ioc_proc, constructed,
                   simulation_mode, session, http_requests, browser_sessions,
                   exit_status, scrape, ended_by, pv, pv_puts>>

\* lines 968-973: the handlers only log
MainExcept ==
    /\ script = "poller" /\ pc = "m_except"
    /\ pc' = "m_finally"
    /\ UNCHANGED <<genVars, camVars, epicsVars, discVars, script, exit_kind, pollVars>>

\* lines 974-976: leybold.disconnect(), and main returns
MainFinally ==
    /\ script = "poller" /\ pc = "m_finally"
    /\ session' = FALSE
    /\ Die("return")
    /\ exit_status' = 0
    /\ UNCHANGED <<genVars, camVars, epicsVars, discVars, script, simulate, ioc_proc, constructed,
                   simulation_mode, http_requests, browser_sessions, scrape,
                   cycle_log, ended_by, pv, pv_puts>>

\* Ctrl+C.  The try of line 927 covers the loop; before it, and inside the
\* handlers, nothing catches it.
MainLoopPcs == {"m_scrape", "m_handle", "m_sleep"}

MainInterrupt ==
    /\ script = "poller" /\ pc # "exited"
    /\ IF pc \in MainLoopPcs
          THEN /\ pc' = "m_except"
               /\ ended_by' = "interrupt"
               /\ UNCHANGED <<exit_kind, exit_status>>
          ELSE /\ Die("interrupt")
               /\ exit_status' = 130
               /\ UNCHANGED ended_by
    /\ UNCHANGED <<genVars, camVars, epicsVars, discVars, script, simulate, ioc_proc, constructed,
                   simulation_mode, session, http_requests, browser_sessions,
                   scrape, cycle_log, pv, pv_puts>>

----------------------------------------------------------------------------
(* The camera viewer, run_thorcam.py *)

SlotOrder == <<"cam1", "cam2">>
Slots == {SlotOrder[i] : i \in 1..Len(SlotOrder)}
Other(s) == IF s = "cam1" THEN "cam2" ELSE "cam1"

\* the physical cameras the SDK can discover
Devices == {"A", "B"}

\* CameraInstance.__init__, lines 36-53; the button of the slot connects
\* (lines 259, 263)
NewCamera == [camera |-> FALSE, camera_id |-> "", recording |-> FALSE, btn |-> "connect"]

\* an SDK call on the camera object of a slot, and the lock held around it:
\* "camera_lock" (that slot's), "sdk_lock" or "none"
CamCall(call, lock) == [call |-> call, lock |-> lock]

ConnectedCount(c) == Cardinality({s \in Slots : c[s].camera})

Callback(name, s, d) == [name |-> name, slot |-> s, device |-> d]

\* What a callback leaves behind.
Effect(c, t, calls, error) == [cam |-> c, timer |-> t, calls |-> calls, error |-> error]

\* toggle_recording, lines 844-908; started: a file was chosen and the video
\* writer opened
ToggleRecording(g, s, started) ==
    IF ~g.cam[s].camera
        THEN [g EXCEPT !.error = "Camera Not Connected"]
    ELSE IF ~g.cam[s].recording
        THEN IF started
                THEN [g EXCEPT !.cam[s].recording = TRUE,
                               !.calls = @ \cup {CamCall("property_read", "camera_lock")}]
                ELSE g
        ELSE [g EXCEPT !.cam[s].recording = FALSE]

\* disconnect_camera, lines 631-676; ok: disarm and dispose returned
DisconnectCamera(g, s, ok) ==
    LET g1 == IF g.cam[s].recording THEN ToggleRecording(g, s, FALSE) ELSE g
    IN  IF ~g1.cam[s].camera THEN g1
        ELSE IF ok
            THEN LET c2 == [g1.cam EXCEPT ![s].camera = FALSE, ![s].camera_id = "",
                                          ![s].btn = "connect"]
                 IN  [g1 EXCEPT !.cam = c2,
                                !.calls = @ \cup {CamCall("disarm", "camera_lock"),
                                                  CamCall("dispose", "camera_lock")},
                                !.timer = IF ConnectedCount(c2) = 0 THEN FALSE ELSE @]
            ELSE [g1 EXCEPT !.calls = @ \cup {CamCall("disarm", "camera_lock")},
                            !.error = "Error disconnecting"]

\* no test at all
NeverInUse(c, s, d) == FALSE

\* the device-in-use test of lines 457-461
InUseElsewhere(c, s, d) == c[Other(s)].camera_id = d

\* connect_camera, lines 432-624, for slot s with device d selected in the
\* dropdown.  o says what the user and the SDK do: o.proceed answers the
\* second-camera warning, the others say which SDK calls return.
ConnectCamera(g, s, d, o) ==
    LET me == g.cam[s]
        cleanup == IF ~me.camera THEN {}
                   ELSE IF o.cleanup_ok
                           THEN {CamCall("disarm", "camera_lock"),
                                 CamCall("dispose", "camera_lock")}
                           ELSE {CamCall("disarm", "camera_lock")}
        opened == [g.cam EXCEPT ![s].camera = TRUE, ![s].camera_id = d]
        \* lines 550-556 and 573-579: dispose under sdk_lock, camera = None
        \* unless dispose raised
        dropped == [opened EXCEPT ![s].camera = ~o.dispose_ok]
        configure == {CamCall("property_write", "camera_lock")}
        arm == {CamCall("arm", "camera_lock"),
                CamCall("issue_software_trigger", "camera_lock")}
    IN  IF sdk = "none" THEN [g EXCEPT !.error = "SDK Not Initialized"]
        ELSE IF selector = {} THEN [g EXCEPT !.error = "No Cameras Available"]
        ELSE IF InUseElsewhere(g.cam, s, d)
            THEN [g EXCEPT !.error = "Camera Already In Use"]
        ELSE IF ConnectedCount(g.cam) > 0 /\ available_camera_count > 1 /\ ~o.proceed
            THEN g                                          \* Cancel, line 481
        ELSE IF ~o.open_ok
            \* three failed open_camera calls, lines 522-535
            THEN [g EXCEPT !.calls = cleanup, !.error = "Error connecting"]
        ELSE IF ~o.config_ok
            THEN Effect(dropped, g.timer,
                        cleanup \cup configure \cup {CamCall("dispose", "sdk_lock")},
                        "Error connecting")
        ELSE IF ~o.arm_ok
            THEN Effect(dropped, g.timer,
                        cleanup \cup configure \cup {CamCall("arm", "camera_lock"),
                                                     CamCall("dispose", "sdk_lock")},
                        "Error connecting")
        \* lines 583-611: the button disconnects from now on, the debug
        \* label reads model, serial_number and firmware_version, the
        \* timer runs
        ELSE Effect([opened EXCEPT ![s].btn = "disconnect"], TRUE,
                    cleanup \cup configure \cup arm
                        \cup {CamCall("property_read", "none")},
                    IF me.camera /\ ~o.cleanup_ok THEN "Error disconnecting" ELSE "")

\* an SDK call that is not reached is written as one that returned
ConnectInputs ==
    {o \in [proceed : BOOLEAN, cleanup_ok : BOOLEAN, open_ok : BOOLEAN,
            config_ok : BOOLEAN, arm_ok : BOOLEAN, dispose_ok : BOOLEAN] :
        /\ ~o.open_ok => o.config_ok
        /\ ~o.config_ok => o.arm_ok
        /\ (o.config_ok /\ o.arm_ok) => o.dispose_ok}

\* update_camera_frame, lines 684-776; out: "raise", "no_frame", "frame",
\* or "autostop" (a recording limit is reached, line 746)
UpdateCameraFrame(g, s, out) ==
    LET poll == {CamCall("issue_software_trigger", "camera_lock"),
                 CamCall("get_pending_frame_or_null", "camera_lock")}
    IN  IF out \in {"raise", "no_frame"}
            THEN [g EXCEPT !.calls = @ \cup poll]
        ELSE LET g1 == [g EXCEPT !.calls = @ \cup poll
                                    \cup {CamCall("property_read", "camera_lock")}]
             IN  IF out = "autostop" /\ g.cam[s].recording
                     THEN ToggleRecording(g1, s, FALSE)
                     ELSE g1

FrameOutcomes == {"raise", "no_frame", "frame", "autostop"}

\* closeEvent, lines 928-942, for one slot
CloseSlot(g, s, ok) ==
    IF ~g.cam[s].camera THEN g
    ELSE [g EXCEPT !.calls = @ \cup {CamCall("disarm", "none")}
                        \cup (IF ok THEN {CamCall("dispose", "none")} ELSE {})]

\* callbacks that handle the slots in the order of self.cameras
RECURSIVE DisconnectFrom(_, _, _)
DisconnectFrom(g, outs, i) ==
    IF i > Len(SlotOrder) THEN g
    ELSE DisconnectFrom(DisconnectCamera(g, SlotOrder[i], outs[SlotOrder[i]]),
                        outs, i + 1)

RECURSIVE UpdateFramesFrom(_, _, _)
UpdateFramesFrom(g, outs, i) ==
    IF i > Len(SlotOrder) THEN g
    ELSE UpdateFramesFrom(IF g.cam[SlotOrder[i]].camera
                             THEN UpdateCameraFrame(g, SlotOrder[i], outs[SlotOrder[i]])
                             ELSE g,
                          outs, i + 1)

RECURSIVE CloseFrom(_, _, _)
CloseFrom(g, outs, i) ==
    IF i > Len(SlotOrder) THEN g
    ELSE CloseFrom(CloseSlot(g, SlotOrder[i], outs[SlotOrder[i]]), outs, i + 1)

Now == Effect(cam, timer_active, {}, "")

CamInit ==
    /\ sdk = "none"
    /\ init_pending = (script = "camera")
    /\ selector = {}
    /\ available_camera_count = 0
    /\ cam = [s \in Slots |-> NewCamera]
    /\ timer_active = FALSE
    /\ refreshing_cameras = FALSE
    /\ last_callback = Callback("none", "", "")
    /\ last_calls = {}
    /\ last_error = ""

\* what a callback did becomes the state
Apply(callback, g) ==
    /\ last_callback' = callback
    /\ cam' = g.cam
    /\ timer_active' = g.timer
    /\ last_calls' = g.calls
    /\ last_error' = g.error

Running == script = "camera" /\ pc = "gui"

CamFrame == UNCHANGED <<genVars, pollVars, epicsVars, discVars, script>>

\* init_sdk, lines 76-184; found: the cameras discovery reports and whose
\* information could be read
InitSdkBody(dispose_ok, create_ok, discover_ok, found) ==
    LET sdk1 == IF sdk = "ok" /\ dispose_ok THEN "none" ELSE sdk
    IN  IF ~create_ok
            THEN /\ sdk' = sdk1
                 /\ last_error' = "SDK Initialization Error"
                 /\ UNCHANGED <<selector, available_camera_count>>
        ELSE /\ sdk' = "ok"
             /\ IF ~discover_ok
                    THEN /\ last_error' = "SDK Initialization Error"
                         /\ UNCHANGED <<selector, available_camera_count>>
                    ELSE /\ available_camera_count' = Cardinality(found)
                         /\ IF found = {}
                                THEN /\ last_error' = "No cameras found!"
                                     /\ UNCHANGED selector
                                ELSE /\ last_error' = ""
                                     /\ selector' = found

\* the QTimer.singleShot callbacks of lines 74 and 422: init_sdk at startup,
\* delayed_refresh (lines 424-430) after a refresh
DelayedInit ==
    /\ Running
    /\ init_pending
    /\ \E dispose_ok, create_ok, discover_ok \in BOOLEAN, found \in SUBSET Devices :
          \* a call that is not reached is written as one that returned
          /\ sdk = "none" => dispose_ok
          /\ ~create_ok => discover_ok
          /\ ~(create_ok /\ discover_ok) => found = {}
          /\ InitSdkBody(dispose_ok, create_ok, discover_ok, found)
    /\ init_pending' = FALSE
    /\ refreshing_cameras' = FALSE
    /\ last_callback' = Callback(IF refreshing_cameras THEN "delayed_refresh"
                                                        ELSE "init_sdk", "", "")
    /\ last_calls' = {}
    /\ UNCHANGED <<cam, timer_active, pc, exit_kind>>
    /\ CamFrame

\* refresh_camera_list, lines 406-422; the button is disabled while a
\* refresh is under way
RefreshCameraList ==
    /\ Running
    /\ ~refreshing_cameras
    /\ \E outs \in [Slots -> BOOLEAN] :
          /\ \A s \in Slots : ~cam[s].camera => outs[s]
          /\ Apply(Callback("refresh_camera_list", "", ""),
                   DisconnectFrom(Now, outs, 1))
    /\ refreshing_cameras' = TRUE
    /\ init_pending' = TRUE
    /\ UNCHANGED <<sdk, selector, available_camera_count, pc, exit_kind>>
    /\ CamFrame

\* a click on the connect button of slot s with device d selected
ClickConnect(s, d) ==
    /\ Running
    /\ cam[s].btn = "connect"
    /\ selector = {} \/ d \in selector
    /\ \E o \in ConnectInputs :
          /\ ~cam[s].camera => o.cleanup_ok
          /\ ConnectedCount(cam) = 0 => o.proceed
          /\ Apply(Callback("connect_camera", s, d), ConnectCamera(Now, s, d, o))
    /\ UNCHANGED <<sdk, selector, available_camera_count, init_pending,
                   refreshing_cameras, pc, exit_kind>>
    /\ CamFrame

ConnectClicked == \E s \in Slots, d \in Devices : ClickConnect(s, d)

\* a click on the button of slot s once it disconnects
DisconnectClicked ==
    /\ Running
    /\ \E s \in Slots, ok \in BOOLEAN :
          /\ cam[s].btn = "disconnect"
          /\ Apply(Callback("disconnect_camera", s, ""), DisconnectCamera(Now, s, ok))
    /\ UNCHANGED <<sdk, selector, available_camera_count, init_pending,
                   refreshing_cameras, pc, exit_kind>>
    /\ CamFrame

\* update_frames, lines 678-682, on the timer
UpdateFrames ==
    /\ Running
    /\ timer_active
    /\ \E outs \in [Slots -> FrameOutcomes] :
          /\ \A s \in Slots : ~cam[s].camera => outs[s] = "no_frame"
          /\ \A s \in Slots : ~cam[s].recording => outs[s] # "autostop"
          /\ Apply(Callback("update_frames", "", ""), UpdateFramesFrom(Now, outs, 1))
    /\ UNCHANGED <<sdk, selector, available_camera_count, init_pending,
                   refreshing_cameras, pc, exit_kind>>
    /\ CamFrame

\* set_exposure, lines 788-810
SetExposure ==
    /\ Running
    /\ \E s \in Slots :
          Apply(Callback("set_exposure", s, ""),
                IF cam[s].camera
                    THEN [Now EXCEPT !.calls = {CamCall("property_write", "camera_lock")}]
                    ELSE Now)
    /\ UNCHANGED <<sdk, selector, available_camera_count, init_pending,
                   refreshing_cameras, pc, exit_kind>>
    /\ CamFrame

\* set_framerate, lines 821-842: the timer restarts when a camera is connected
SetFramerate ==
    /\ Running
    /\ Apply(Callback("set_framerate", "", ""),
             [Now EXCEPT !.timer = IF ConnectedCount(cam) > 0 THEN TRUE ELSE @])
    /\ UNCHANGED <<sdk, selector, available_camera_count, init_pending,
                   refreshing_cameras, pc, exit_kind>>
    /\ CamFrame

\* a click on the record button of slot s
RecordClicked ==
    /\ Running
    /\ \E s \in Slots, started \in BOOLEAN :
          /\ (~cam[s].camera \/ cam[s].recording) => started
          /\ Apply(Callback("toggle_recording", s, ""), ToggleRecording(Now, s, started))
    /\ UNCHANGED <<sdk, selector, available_camera_count, init_pending,
                   refreshing_cameras, pc, exit_kind>>
    /\ CamFrame

\* closeEvent, lines 920-955
CloseEvent ==
    /\ Running
    /\ \E outs \in [Slots -> BOOLEAN] :
          /\ \A s \in Slots : ~cam[s].camera => outs[s]
          /\ Apply(Callback("closeEvent", "", ""),
                   CloseFrom([Now EXCEPT !.timer = FALSE], outs, 1))
    /\ Die("closed")
    /\ UNCHANGED <<sdk, selector, available_camera_count, init_pending,
                   refreshing_cameras>>
    /\ CamFrame

----------------------------------------------------------------------------
----------------------------------------------------------------------------
(* The device-discovery scripts, "ip 2025.10.30.py" and "ip 2025.11.07.py" *)

DiscoveryScripts == {"ip 2025.10.30", "ip 2025.11.07"}

\* lines 122 and 179: elements[7:]
HeaderWords == 7
\* line 126: k%5, and line 186: k%6
WordsPerDevice1030 == 5
WordsPerDevice1107 == 6
\* lines 128 and 189: device_elements[k+4]
IpOffset == 4
\* lines 142 and 215: len(device_elements)/5
AcceptDivisor == 5

WordsPerDevice(sc) ==
    IF sc = "ip 2025.10.30" THEN WordsPerDevice1030 ELSE WordsPerDevice1107

\* a text is a sequence of characters
Digits == <<"0", "1", "2", "3", "4", "5", "6", "7", "8", "9">>
DigitChars == {Digits[i] : i \in 1..Len(Digits)}
DigitValue(c) == CHOOSE d \in 0..9 : Digits[d + 1] = c

\* str(n) of an integer n >= 0
RECURSIVE StrOf(_)
StrOf(n) ==
    IF n < 10 THEN <<Digits[n + 1]>>
    ELSE StrOf(n \div 10) \o <<Digits[(n % 10) + 1]>>

RECURSIVE LStrip(_)
LStrip(s) == IF s # <<>> /\ Head(s) = " " THEN LStrip(Tail(s)) ELSE s

RECURSIVE RStrip(_)
RStrip(s) ==
    IF s # <<>> /\ s[Len(s)] = " " THEN RStrip(SubSeq(s, 1, Len(s) - 1)) ELSE s

RECURSIVE DigitsValue(_, _)
DigitsValue(s, acc) ==
    IF s = <<>> THEN acc
    ELSE DigitsValue(Tail(s), 10 * acc + DigitValue(Head(s)))

\* int(x) of a text: blanks around it are dropped, one sign is allowed, the
\* rest must be decimal digits (leading zeros included); anything else
\* raises ValueError (ok = FALSE)
IntOf(s) ==
    LET t == RStrip(LStrip(s))
        signed == t # <<>> /\ Head(t) \in {"+", "-"}
        d == IF signed THEN Tail(t) ELSE t
    IN  IF d # <<>> /\ \A i \in 1..Len(d) : d[i] \in DigitChars
            THEN [ok |-> TRUE,
                  val |-> IF Head(t) = "-" THEN 0 - DigitsValue(d, 0)
                                           ELSE DigitsValue(d, 0)]
            ELSE [ok |-> FALSE, val |-> 0]

\* what the user can type at the prompt
InputChars == {"0", "1", "2", "6", " ", "-", "a"}
RECURSIVE TextsUpTo(_)
TextsUpTo(n) ==
    IF n = 0 THEN {<<>>}
    ELSE LET shorter == TextsUpTo(n - 1)
         IN  shorter \cup {Append(t, c) : t \in shorter, c \in InputChars}
Inputs == TextsUpTo(MaxInputLen)

\* lines 122 and 179
DeviceElements(n) == IF n > HeaderWords THEN n - HeaderWords ELSE 0

\* lines 125-128 and 185-196: the values of k the loop stores an entry for
GroupStarts(sc, len) == {k \in 0..(len - 1) : k % WordsPerDevice(sc) = 0}

\* device_elements[k+4] of a group that is cut short raises IndexError
ParseRaises(sc, len) == \E k \in GroupStarts(sc, len) : k + IpOffset >= len

\* the keys str(index), index = int(k/5 + 1) or int(k/6 + 1)
DictKeys(sc, len) ==
    {StrOf((k \div WordsPerDevice(sc)) + 1) : k \in GroupStarts(sc, len)}

\* lines 142 and 215: int(x) <= len(device_elements)/5 and int(x) > 0
Accepted(n, len) == n * AcceptDivisor <= len /\ n > 0

NoSelection == [kind |-> "none", text |-> <<>>]
\* line 210: x = 1, an integer; str(x) is "1"
SelectionOne == [kind |-> "int", text |-> StrOf(1)]
Typed(t) == [kind |-> "str", text |-> t]

DiscInit ==
    /\ elements \in (IF script \in DiscoveryScripts
                        THEN 0..(HeaderWords + MaxDeviceWords) ELSE {0})
    /\ device_ip_dict = {}
    /\ x = NoSelection
    /\ check = FALSE

DiscFrame == UNCHANGED <<genVars, pollVars, camVars, epicsVars, script, elements>>

\* lines 118-131 and 138, and lines 175-210
DiscoverParse ==
    /\ script \in DiscoveryScripts /\ pc = "d_parse"
    /\ LET len == DeviceElements(elements)
       IN  IF ParseRaises(script, len)
              THEN /\ Die("IndexError")
                   /\ UNCHANGED <<device_ip_dict, x, check>>
           ELSE /\ device_ip_dict' = DictKeys(script, len)
                /\ IF device_ip_dict' = {}
                      THEN /\ Die("end")        \* 'No devices found.'
                           /\ UNCHANGED <<x, check>>
                   ELSE IF script = "ip 2025.11.07" /\ Cardinality(device_ip_dict') = 1
                      THEN /\ check' = FALSE
                           /\ x' = SelectionOne
                           /\ pc' = "d_lookup"
                           /\ UNCHANGED exit_kind
                   ELSE /\ check' = TRUE
                        /\ pc' = "d_prompt"
                        /\ UNCHANGED <<x, exit_kind>>
    /\ DiscFrame

\* lines 139-149 and 212-222: one pass of `while check'
DiscoverPrompt ==
    /\ script \in DiscoveryScripts /\ pc = "d_prompt" /\ check
    /\ \E t \in Inputs :
        /\ x' = Typed(t)
        /\ LET n == IntOf(t)
           IN  IF n.ok /\ Accepted(n.val, DeviceElements(elements))
                  THEN /\ check' = FALSE
                       /\ pc' = "d_lookup"
                  ELSE UNCHANGED <<check, pc>>
    /\ UNCHANGED <<device_ip_dict, exit_kind>>
    /\ DiscFrame

\* lines 151-159 and 226-240: device_ip_dict[str(x)]
DiscoverLookup ==
    /\ script \in DiscoveryScripts /\ pc = "d_lookup"
    /\ IF x.text \in device_ip_dict THEN Die("end") ELSE Die("KeyError")
    /\ UNCHANGED <<device_ip_dict, x, check>>
    /\ DiscFrame

Init ==
    /\ script \in {"sweep", "pulse", "poller", "camera"}
    /\ pc = CASE script = "sweep" -> "s_load"
              [] script = "pulse" -> "p_ip"
              [] script = "poller" -> "m_check"
              [] script = "camera" -> "gui"
    /\ exit_kind = "none"
    /\ GenInit
    /\ PollInit
    /\ CamInit
    /\ EpicsInit
    /\ DiscInit

SweepNext ==
    \/ SweepLoad \/ SweepSave \/ SweepConnect \/ SweepTryCall
    \/ SweepWhile \/ SweepStep \/ SweepFinallyCall \/ SweepExit
    \/ SweepInterrupt

PulseNext ==
    \/ PulseConnect \/ PulseRead \/ PulsePrompt \/ PulseSave \/ PulseGenerate
    \/ PulseSummary \/ PulseWhile \/ PulseStep \/ PulseFinallyCall \/ PulseExit
    \/ PulseInterrupt

MainNext ==
    \/ MainCheckIoc \/ MainConstruct \/ MainSetSimulation \/ MainScrape
    \/ MainHandle \/ MainSleep \/ MainExcept \/ MainFinally
    \/ MainInterrupt

CameraNext ==
    \/ DelayedInit \/ RefreshCameraList \/ ConnectClicked \/ DisconnectClicked
    \/ UpdateFrames \/ SetExposure \/ SetFramerate \/ RecordClicked
    \/ CloseEvent

Next == SweepNext \/ PulseNext \/ MainNext \/ CameraNext

\* every program of the repository
Spec == Init /\ [][Next]_vars

\* one program at a time
SweepInit == Init /\ script = "sweep"
PulseInit == Init /\ script = "pulse"
MainInit == Init /\ script = "poller"
CameraInit == Init /\ script = "camera"

GenInitial == Init /\ script \in {"sweep", "pulse"}
GenNext == SweepNext \/ PulseNext
GenSpec == GenInitial /\ [][GenNext]_vars
SweepSpec == SweepInit /\ [][SweepNext]_vars
PulseSpec == PulseInit /\ [][PulseNext]_vars
MainSpec == MainInit /\ [][MainNext]_vars
CameraSpec == CameraInit /\ [][CameraNext]_vars

\* the three looping programs, each taking its steps as long as it has one,
\* which is what the interpreter does; nothing makes a user press Ctrl+C
MainProgram ==
    \/ MainCheckIoc \/ MainConstruct \/ MainSetSimulation \/ MainScrape
    \/ MainHandle \/ MainSleep \/ MainExcept \/ MainFinally

\* update_epics_pvs on its own, called again and again
UpdateInit ==
    /\ script = "update_epics_pvs" /\ pc = "call" /\ exit_kind = "none"
    /\ GenInit /\ PollInit /\ CamInit /\ EpicsInit /\ DiscInit
UpdateSpec == UpdateInit /\ [][CallUpdateEpicsPvs]_vars

\* the two device-discovery scripts
DiscoverInit ==
    /\ script \in DiscoveryScripts /\ pc = "d_parse" /\ exit_kind = "none"
    /\ GenInit /\ PollInit /\ CamInit /\ EpicsInit /\ DiscInit
DiscoverNext == DiscoverParse \/ DiscoverPrompt \/ DiscoverLookup
DiscoverSpec == DiscoverInit /\ [][DiscoverNext]_vars

ScriptsInit == Init /\ script # "camera"
ScriptsNext == SweepNext \/ PulseNext \/ MainNext
FairSpec ==
    ScriptsInit /\ [][ScriptsNext]_vars
        /\ WF_vars(SweepProgram \/ PulseProgram \/ MainProgram)

----------------------------------------------------------------------------
(* C1 *)

SweepLoopPcs == {"s_while", "s_advance"}
PulseLoopPcs == {"p_while", "p_advance"}
InRunLoop == pc \in SweepLoopPcs \cup PulseLoopPcs \cup MainLoopPcs

\* C1 as stated: whatever the configuration, a program that is in its run
\* loop (sweep, pulse, poller) leaves it, with no keyboard interrupt needed.
C1_EveryLoopEnds == InRunLoop ~> ~InRunLoop

\* C1, amended: the sweep loop ends on its own when 'program duration' is
\* finite and the pulse loop when no_pulses is not negative; the poller's
\* loop is left only by a keyboard interrupt or by an exception.
C1_BoundedLoopsEnd ==
    /\ (\/ pc \in SweepLoopPcs /\ params["program duration"] < Infinity
        \/ pc \in PulseLoopPcs /\ params["no_pulses"] >= 0)
            ~> (pc \notin SweepLoopPcs \cup PulseLoopPcs)
    /\ [][(pc \in MainLoopPcs /\ pc' \notin MainLoopPcs)
            => ended_by' \in {"interrupt", "error"}]_vars

\* the sweep loop ran and ended by its own test
C1_SweepRanOut ==
    /\ script = "sweep" /\ pc = "s_fin_off" /\ left_by = "normal"
    /\ time_elapsed >= 2

----------------------------------------------------------------------------
(* C2 *)

\* C2: when scrape_web_data ran in simulation mode, or ran its strategies
\* and none extracted a value, it returned simulated readings: it neither
\* raised nor returned an empty result.
C2_SimulatedFallback ==
    (scrape.tried # <<>> /\ (simulation_mode \/ scrape.keys = {}))
        => scrape.kind = "simulated"

----------------------------------------------------------------------------
(* C3 *)

\* C3: outside simulation mode no scrape ends the polling loop (only a
\* keyboard interrupt does), and a cycle that got nothing from the station
\* logs a warning, disconnects and reconnects before it sleeps.
C3_LoopSurvivesFailedScrape ==
    /\ ~simulation_mode => ended_by # "error"
    /\ (pc = "m_sleep" /\ scrape.kind = "empty")
            => cycle_log = <<"warning", "disconnect", "connect">>

----------------------------------------------------------------------------
(* C4 *)

\* C4: simulation mode set by a failed initial connection (it is on when
\* the constructor returns) stays on when main goes on to the polling loop
\* and all through the loop.
C4_InitialFailureKeepsSimulation ==
    [][(simulation_mode /\ pc \in {"m_set_sim"} \cup MainLoopPcs)
            => simulation_mode']_vars

----------------------------------------------------------------------------
(* C5 *)

\* C5: with --simulate no HTTP request is sent and no browser session is
\* opened, from start to termination.
C5_SimulateOpensNothing ==
    simulate => (http_requests = 0 /\ browser_sessions = 0)

----------------------------------------------------------------------------
(* C6 *)

\* C6: with no IOC process main gets no further than the check: no station
\* object, no request, no PV written, and its sys.exit gives status 1;
\* when the process check itself fails main does not exit with status 1 at
\* the check but goes on to construct the station object.
C6_NoIocNoStart ==
    /\ ioc_proc = "absent"
            => /\ pc \in {"m_check", "exited"}
               /\ ~constructed /\ http_requests = 0 /\ browser_sessions = 0
               /\ pv = PvInit /\ pv_puts = 0
               /\ exit_kind = "sys.exit" => exit_status = 1
    /\ ioc_proc = "pgrep_fails"
            => /\ exit_status # 1
               /\ (pc \notin {"m_check", "m_construct"} /\ exit_kind # "interrupt")
                    => constructed

\* main exited with status 1 at the IOC check
C6_RefusedToStart ==
    script = "poller" /\ ioc_proc = "absent" /\ pc = "exited" /\ exit_status = 1

----------------------------------------------------------------------------
(* C7 *)

DistinctCameras ==
    \A s \in Slots :
        (cam[s].camera /\ cam[Other(s)].camera)
            => cam[s].camera_id # cam[Other(s)].camera_id

\* device d is open in the slot other than s
OpenInOther(s, d) == cam[Other(s)].camera /\ cam[Other(s)].camera_id = d

\* C7 as stated: the two slots are never both connected with the same
\* device id, and connect_camera for a device that is open in the other
\* slot shows 'Camera Already In Use' and changes no slot.
C7_NeverSameCamera ==
    /\ []DistinctCameras
    /\ [][\A s \in Slots, d \in Devices :
            (last_callback' = Callback("connect_camera", s, d) /\ OpenInOther(s, d))
                => (cam' = cam /\ last_error' = "Camera Already In Use")]_vars

\* C7, amended: the two slots are never both connected with the same device
\* id; connect_camera for a device that is open in the other slot changes
\* no slot, and shows 'Camera Already In Use' when the SDK is initialised,
\* 'SDK Not Initialized' when it is not.
C7_NeverSameCameraSdkFirst ==
    /\ []DistinctCameras
    /\ [][\A s \in Slots, d \in Devices :
            (last_callback' = Callback("connect_camera", s, d) /\ OpenInOther(s, d))
                => /\ cam' = cam
                   /\ last_error' = IF sdk = "ok" THEN "Camera Already In Use"
                                                  ELSE "SDK Not Initialized"]_vars

\* a connect was refused because the other slot holds the device
C7_Refused ==
    /\ last_error = "Camera Already In Use"
    /\ \E s \in Slots : cam[s].camera /\ cam[s].camera_id \in Devices

----------------------------------------------------------------------------
(* C8 *)

\* C8: every SDK call a callback makes on a slot's camera object is made
\* with that slot's camera_lock held.
C8_CallsUnderCameraLock ==
    \A c \in last_calls : c.lock = "camera_lock"

----------------------------------------------------------------------------
(* C9 *)

CallsOf(names) == {i \in DOMAIN sdk_calls : sdk_calls[i].call \in names}

\* every call of `names' was made, and returned, before the call at j
OffBefore(names, j) ==
    \A n \in names :
        \E i \in CallsOf({n}) : i < j /\ sdk_calls[i].ok

OutputOffCalls ==
    IF script = "sweep" THEN {"enable_output(1,False)"}
    ELSE {"generate_waveform(2,Off)", "generate_waveform(4,Off)"}

\* C9: when a generator script has exited after leaving its run block (by
\* completion, keyboard interrupt or SDK error), it has called
\* relinquish_ownership exactly once, after switching the output off.
C9_AlwaysReleased ==
    (script \in {"sweep", "pulse"} /\ pc = "exited" /\ left_by # "none")
        => /\ Cardinality(CallsOf({"relinquish_ownership"})) = 1
           /\ \A j \in CallsOf({"relinquish_ownership"}) : OffBefore(OutputOffCalls, j)

----------------------------------------------------------------------------
(* C10 *)

GenerateCalls ==
    {"generate_waveform(4,Pulse)", "generate_waveform(4,Off)", "generate_waveform(2,Off)"}

\* C10: the pulse script makes no generate_waveform call before the prompt
\* is answered 'y'; after another answer it is back in the confirmation
\* loop and reads conf_pulse.yaml again before it asks again; the
\* parameters handed to generate_waveform and written to the timestamped
\* file are those of the prompt that was answered 'y'.
C10_ConfirmedBeforeSignal ==
    script = "pulse" =>
        /\ CallsOf(GenerateCalls) # {} => answer = "y"
        /\ answer # "y" => saved_conf = <<>> /\ generated = <<>>
        /\ answer = "n" => pc \in {"p_read", "p_prompt", "exited"}
        /\ (answer = "n" /\ pc = "p_prompt") => reads >= 2
        /\ \A i \in DOMAIN generated : generated[i] = shown
        /\ \A i \in DOMAIN saved_conf : saved_conf[i] = shown

\* a pulse was started after a refusal, a second read and a 'y'
C10_GeneratedAfterSecondRead ==
    script = "pulse" /\ generated # <<>> /\ answer = "y" /\ reads >= 2

----------------------------------------------------------------------------
(* C11 *)

\* C11: when the load of the configuration file failed (no file, or a key
\* missing), the parameters the script goes on with are the built-in
\* defaults: in the sweep script when it saves them, in the pulse script at
\* every pass of the confirmation loop.
C11_DefaultsOnLoadFailure ==
    /\ (script = "sweep" /\ pc = "s_save" /\ LoadFailed(conf_file, SweepKeys))
            => params = SweepDefaults
    /\ (script = "pulse" /\ pc = "p_prompt" /\ LoadFailed(conf_file, PulseKeys))
            => params = PulseDefaults

----------------------------------------------------------------------------
(* C12 *)

\* C12: update_epics_pvs gives up on a PV after 5 failed attempts: a call
\* that starts with a PV's counter at 5 or more and does not clear the
\* counters calls neither connect nor put on that PV; after a put that
\* returned, the PV's counter is 0; and no counter ever exceeds 6.
C12_GivesUpAfterFive ==
    /\ [](script = "update_epics_pvs" =>
            \A q \in PVs : /\ pv.attempts[q] <= 6
                           /\ q \in last_update.put_ok => pv.attempts[q] = 0)
    /\ [][script = "update_epics_pvs" =>
            \A q \in PVs :
                (pv.attempts[q] >= 5 /\ ~last_update'.reset)
                    => last_update'.calls[q] \cap {"connect", "put"} = {}]_vars

\* a call had a value for a PV whose counter stands at 6 and left the PV alone
C12_GaveUp ==
    /\ script = "update_epics_pvs"
    /\ \E q \in PVs : /\ pv.attempts[q] = 6
                      /\ q \in last_update.data
                      /\ last_update.calls[q] = {}
                      /\ ~last_update.reset

----------------------------------------------------------------------------
(* C13 *)

\* C13: consecutive_failures is the number of calls in a row, up to the
\* last one and counted from the last reset, that had non-empty data and
\* updated no PV; a call that updates a PV or has empty data leaves it at 0;
\* and a call discards the cached PV objects and the attempt counters and
\* starts from a count of 0, before it processes any PV, exactly when it
\* starts with the count above 10.
C13_ConsecutiveFailures ==
    /\ [](script = "update_epics_pvs" =>
            /\ pv.failures = failed_calls
            /\ (pv.has_failures /\ (last_update.updated > 0 \/ last_update.data = {}))
                    => pv.failures = 0)
    /\ [][script = "update_epics_pvs" =>
            IF pv.failures > 10
                THEN /\ last_update'.reset
                     /\ pv'.failures <= 1
                     /\ \A q \in PVs \ last_update'.data :
                            pv'.attempts[q] = -1 /\ q \notin pv'.objects
                     /\ \A q \in last_update'.data :
                            pv'.attempts[q] <= 2 /\ "PV" \in last_update'.calls[q]
                ELSE /\ ~last_update'.reset
                     /\ pv.objects \subseteq pv'.objects
                     /\ \A q \in PVs : pv.attempts[q] # -1 => pv'.attempts[q] # -1]_vars

\* a call started with the count at 11, recreated everything and failed again
C13_ResetThenFailed ==
    /\ script = "update_epics_pvs"
    /\ last_update.reset
    /\ last_update.data # {}
    /\ pv.failures = 1

----------------------------------------------------------------------------
(* C14 *)

\* the fallback strategies in the order of the claim
FallbackOrder ==
    <<"_scrape_page", "_scrape_ajax", "_extract_all_numeric_data",
      "_alternative_scrape", "_scrape_additional_endpoints">>

\* C14: in a polling cycle that ran Selenium, the data is returned with no
\* other strategy tried only when Selenium extracted at least 3 values;
\* with fewer than 3 values the fallback strategies are tried, in the fixed
\* order and each at most once.
C14_FallbacksWhenFewValues ==
    (script = "poller" /\ scrape.tried # <<>> /\ Head(scrape.tried) = "selenium") =>
        /\ (scrape.kind = "data" /\ Len(scrape.tried) = 1)
                => Cardinality(scrape.keys) >= 3
        /\ Cardinality(scrape.keys) < 3 =>
                /\ Len(scrape.tried) >= 2
                /\ Len(scrape.tried) <= 1 + Len(FallbackOrder)
                /\ \A k \in 2..Len(scrape.tried) :
                        scrape.tried[k] = FallbackOrder[k - 1]

----------------------------------------------------------------------------
(* C15 *)

\* C15: in both discovery scripts an input the prompt accepted is an index
\* of the list, 1 <= int(x) <= number of devices listed, and the lookup
\* device_ip_dict[str(x)] finds it; an input the prompt rejected is not such
\* an index.
C15_AcceptedInputIsListed ==
    (script \in DiscoveryScripts /\ x.kind = "str") =>
        LET n == IntOf(x.text)
            listed == /\ n.ok
                      /\ 1 <= n.val
                      /\ n.val <= Cardinality(device_ip_dict)
        IN  /\ pc = "d_lookup" => (listed /\ x.text \in device_ip_dict)
            /\ pc = "d_prompt" => ~listed
            /\ pc = "exited" => exit_kind # "KeyError"

====
